---- MODULE Spec2Model ----
(***************************************************************************)
(* Model of the dependency-aware task scheduler                            *)
(* (backend/services/task_scheduler.py) as driven by the agent             *)
(* coordinator (agents/coordinator.py).                                    *)
(*                                                                         *)
(* The scheduler runs on one asyncio event loop: a coroutine runs without  *)
(* interruption from one suspension point to the next, so every action     *)
(* below is the code between two awaits of one coroutine.                  *)
(***************************************************************************)
EXTENDS Integers, Sequences, FiniteSets, TLC

(***************************************************************************)
(* Bounds of the model.                                                    *)
(***************************************************************************)
\* largest gate capacity a scheduler is constructed with
MaxParallel == 2
\* number of schedule_and_execute calls made on one scheduler
MaxRuns == 2
\* clock steps per dependency deadline (the clock advances by TimeStep)
TicksPerTimeout == 1

(***************************************************************************)
(* AgentStage (task_scheduler.py:11-16).                                   *)
(***************************************************************************)
ANALYSIS == "analysis"
API_DOCS == "api_documentation"
README == "readme_creation"
ARCHITECTURE == "architecture_docs"

AgentStage == {ANALYSIS, API_DOCS, README, ARCHITECTURE}

\* timeout = 300 in _wait_for_dependencies, in seconds
timeout == 300

\* The clock counts tenths of a second, the length of asyncio.sleep(0.1).
UnitsPerSecond == 10
PollInterval == 1

\* the deadline of a wait, in units of the clock
Deadline == timeout * UnitsPerSecond

TimeStep == Deadline \div TicksPerTimeout
\* the clock of a run is followed until two deadlines in a row have passed
MaxTime == 2 * Deadline + 2 * TimeStep

(***************************************************************************)
(* AgentTask: stage, dependencies (a list), priority.  The agent_func of a *)
(* task is an opaque coroutine; the model keeps only whether it returns or *)
(* raises ("ok" / "raise"), chosen when the run is submitted.              *)
(***************************************************************************)
AgentTask(stage, dependencies, priority) ==
    [stage |-> stage, dependencies |-> dependencies, priority |-> priority]

CoordinatorTasksWithoutReadme ==
    << AgentTask(ANALYSIS, <<>>, 10),
       AgentTask(API_DOCS, <<ANALYSIS>>, 5) >>

\* the task list AgentCoordinator.coordinate declares
CoordinatorTasks ==
    << AgentTask(ANALYSIS, <<>>, 10),
       AgentTask(API_DOCS, <<ANALYSIS>>, 5),
       AgentTask(README, <<ANALYSIS>>, 5) >>

\* the same graph submitted with the analysis task last
CoordinatorTasksReordered ==
    << AgentTask(API_DOCS, <<ANALYSIS>>, 5),
       AgentTask(README, <<ANALYSIS>>, 5),
       AgentTask(ANALYSIS, <<>>, 10) >>

\* a chain whose last task has two prerequisites
ChainTasks ==
    << AgentTask(ARCHITECTURE, <<ANALYSIS, API_DOCS>>, 0),
       AgentTask(API_DOCS, <<ANALYSIS>>, 5),
       AgentTask(ANALYSIS, <<>>, 10) >>

\* a task whose prerequisite is not submitted with it
UnmetTasks ==
    << AgentTask(ANALYSIS, <<>>, 10),
       AgentTask(README, <<ARCHITECTURE>>, 5) >>

\* the task lists a caller submits in this model
TaskLists ==
    {CoordinatorTasks, CoordinatorTasksReordered, ChainTasks, UnmetTasks}

\* the length of the longest of them
MaxTasks ==
    CHOOSE n \in {Len(ts) : ts \in TaskLists} :
        \A ts \in TaskLists : Len(ts) <= n

AgentFuncs == {"ok", "raise"}

(***************************************************************************)
(* sorted(tasks, key=lambda t: (len(t.dependencies), -t.priority)):        *)
(* a stable sort, here by insertion.                                       *)
(***************************************************************************)
KeyLessByPriority(a, b) == -a.priority < -b.priority

\* key=lambda t: (len(t.dependencies), -t.priority), compared as tuples
KeyLess(a, b) ==
    \/ Len(a.dependencies) < Len(b.dependencies)
    \/ /\ Len(a.dependencies) = Len(b.dependencies)
       /\ -a.priority < -b.priority

RECURSIVE InsertBeforeEqual(_, _)
InsertBeforeEqual(t, s) ==
    IF s = <<>> THEN <<t>>
    ELSE IF ~KeyLess(Head(s), t) THEN <<t>> \o s
    ELSE <<Head(s)>> \o InsertBeforeEqual(t, Tail(s))

\* the place of a task in the sorted list: behind the tasks whose key is not
\* greater, so that tasks with equal keys keep the order of the input
RECURSIVE InsertSorted(_, _)
InsertSorted(t, s) ==
    IF s = <<>> THEN <<t>>
    ELSE IF KeyLess(t, Head(s)) THEN <<t>> \o s
    ELSE <<Head(s)>> \o InsertSorted(t, Tail(s))

RECURSIVE SortedFrom(_, _)
SortedFrom(ts, n) ==
    IF n = 0 THEN <<>> ELSE InsertSorted(ts[n], SortedFrom(ts, n - 1))

UnsortedTasks(ts) == ts

SortedTasks(ts) == SortedFrom(ts, Len(ts))

(***************************************************************************)
(* State.                                                                  *)
(***************************************************************************)
VARIABLES
    max_parallel,      \* TaskScheduler.max_parallel
    completed_stages,  \* TaskScheduler.completed_stages
    failed_stages,     \* TaskScheduler.failed_stages
    results,           \* TaskScheduler.results: stage -> result
    semaphore,         \* asyncio.Semaphore: [value, waiters (FIFO of positions)]
    sorted_tasks,      \* the task list of the current run, as sorted
    agent_func,        \* per position: what the task's agent_func does
    pc,                \* per position: where the execute_task coroutine is
    start_time,        \* per position: start_time of _wait_for_dependencies
    wake,              \* per position: when the asyncio.sleep of the loop ends
    first_failure,     \* the exception raised first, in time, in the run
    outcome,           \* per position: what asyncio.gather collected
    calls,             \* per position: how often agent_func was called
    launched,          \* how many execute_task coroutines have taken a step
    now,               \* the event loop's clock, from the start of the run
    run,               \* the current schedule_and_execute call
    runs,              \* schedule_and_execute calls made so far
    max_tokens,        \* SmartChunker.max_tokens
    files_metadata,    \* the argument of the last create_chunks call
    chunks,            \* what the last create_chunks call returned
    current_chunk,     \* create_chunks: the open chunk, as the call left it
    current_tokens,    \* create_chunks: its token count, as the call left it
    first_call,        \* the first create_chunks call, and what followed it
    active_sessions,   \* upload.active_sessions: the session ids uploaded
    generation_tasks,  \* generate.generation_tasks: session -> its dictionary
    task_dicts,        \* the status of each dictionary made for a generation
    background,        \* the _generate_docs_background tasks added so far
    response,          \* the answer to the last POST of generate_documentation
    llm_requests,      \* the GroqClient.generate calls
    last_request_time  \* GroqClient.last_request_time, counted in requests

vars == << max_parallel, completed_stages, failed_stages, results, semaphore,
           sorted_tasks, agent_func, pc, start_time, wake, first_failure,
           outcome, calls, launched, now, run, runs, max_tokens,
           files_metadata, chunks, current_chunk, current_tokens, first_call,
           active_sessions, generation_tasks, task_dicts, background,
           response, llm_requests, last_request_time >>

generate_vars == << active_sessions, generation_tasks, task_dicts, background,
                    response >>

llm_vars == << llm_requests, last_request_time >>

\* the state outside the scheduler and the chunker
service_vars == << generate_vars, llm_vars >>

chunker_vars == << max_tokens, files_metadata, chunks, current_chunk,
                   current_tokens, first_call >>

scheduler_vars == << completed_stages, failed_stages, results >>

Positions == 1..Len(sorted_tasks)

StageOf(i) == sorted_tasks[i].stage

\* the stages a list of stages names
Range(s) == {s[k] : k \in 1..Len(s)}

\* [d for d in deps if P(d)]
SelectIn(deps, S) == SelectSeq(deps, LAMBDA d : d \in S)
SelectNotIn(deps, S) == SelectSeq(deps, LAMBDA d : d \notin S)

(***************************************************************************)
(* What a task leaves in the list asyncio.gather(return_exceptions=True)   *)
(* returns: the result of agent_func, or the exception execute_task        *)
(* re-raised.  names lists the stage values the exception's message holds. *)
(***************************************************************************)
NoValue == [stage |-> "", run |-> 0]

NoOutcome ==
    [kind |-> "none", type |-> "", msg |-> "", names |-> <<>>, value |-> NoValue]

Returned(v) ==
    [kind |-> "result", type |-> "", msg |-> "", names |-> <<>>, value |-> v]

\* an exception raised inside agent_func: its message comes from the agent
\* and the LLM client and holds no stage value
AgentError ==
    [kind |-> "exception", type |-> "Exception",
     msg |-> "LLM call failed", names |-> <<>>, value |-> NoValue]

\* Exception(f"Dependencies failed: {[d.value for d in failed_deps]}")
DependenciesFailed(failed_deps) ==
    [kind |-> "exception", type |-> "Exception",
     msg |-> "Dependencies failed", names |-> failed_deps, value |-> NoValue]

\* asyncio.TimeoutError(f"Timeout ({timeout}s) waiting for dependencies: {missing}")
TimeoutError(missing) ==
    [kind |-> "exception", type |-> "TimeoutError",
     msg |-> "Timeout waiting for dependencies", names |-> missing,
     value |-> NoValue]

\* str(e): the message of an exception, without its type
Str(e) == [msg |-> e.msg, names |-> e.names]

NoCause == [msg |-> "", names |-> <<>>]

RunFailureOfLast(failures) ==
    [status |-> "raised", cause |-> Str(failures[Len(failures)])]

\* Exception(f"Task execution failed: {failures[0]}")
RunFailure(failures) == [status |-> "raised", cause |-> Str(failures[1])]

(***************************************************************************)
(* asyncio.Semaphore.                                                      *)
(***************************************************************************)
NeverLocked(sem) == FALSE

\* Semaphore.locked(): no slot left, or somebody is queued already
Locked(sem) == sem.value = 0 \/ sem.waiters # <<>>

ReleaseNothing(sem) == sem

\* Semaphore.release(): the slot goes to the first waiter if there is one
Release(sem) ==
    IF sem.waiters = <<>>
    THEN [value |-> sem.value + 1, waiters |-> <<>>]
    ELSE [value |-> sem.value, waiters |-> Tail(sem.waiters)]

WokenNobody(sem) == 0

\* the first waiter, which release() wakes up (0: nobody is queued)
Woken(sem) == IF sem.waiters = <<>> THEN 0 ELSE Head(sem.waiters)

(***************************************************************************)
(* SmartChunker.  A file's metadata is what extract_metadata returns: the  *)
(* error dictionary, or a dictionary with the file's token count and the   *)
(* fields _create_file_summary renders.  The tokenizer is not modelled:    *)
(* a file carries the token count of its rendered summary.                 *)
(***************************************************************************)
\* MAX_CHUNK_TOKENS: int = 6000
MAX_CHUNK_TOKENS == 6000

\* the most files given to one create_chunks call
MaxFiles == 3

\* the values tried for settings.MAX_CHUNK_TOKENS
Budgets == {1, 5500, MAX_CHUNK_TOKENS}

\* the token counts of rendered summaries, and of files
SummaryCosts == {2500, 3000, 4000, 9000}
FileTokens == {20000}

\* the dictionary of the except branch of extract_metadata
ErrorMeta(name) ==
    [name |-> name, error |-> TRUE, tokens |-> 0, summary_tokens |-> 0]

\* the dictionary extract_metadata returns for a file it could read
FileMeta(name, tokens, summary_tokens) ==
    [name |-> name, error |-> FALSE, tokens |-> tokens,
     summary_tokens |-> summary_tokens]

\* the metadata a file called name can have, its summary costing one of costs
MetaOf(name, costs) ==
    {ErrorMeta(name)} \cup
    {FileMeta(name, t, c) : t \in FileTokens, c \in costs}

\* the lists of at most n files, the k-th file called k
FilesMetadata(n, costs) ==
    UNION { {[k \in 1..m |-> [f[k] EXCEPT !.name = k]] :
                f \in [1..m -> MetaOf(0, costs)]} : m \in 0..n }

NoError(file_meta) == FALSE

\* 'error' in file_meta
HasError(file_meta) == file_meta.error

FileTokensOf(file_meta) == file_meta.tokens

\* self.count_tokens(self._create_file_summary(file_meta))
SummaryTokens(file_meta) == file_meta.summary_tokens

LeftoverLocals(left) == left

\* chunks = []; current_chunk = []; current_tokens = 0: whatever an earlier
\* call left is not read
InitialLocals(left) ==
    [chunks |-> <<>>, current_chunk |-> <<>>, current_tokens |-> 0]

ExceedsAlone(tokens, summary_tokens, max) == summary_tokens > max

ExceedsOrEqual(tokens, summary_tokens, max) == tokens + summary_tokens >= max

NeverExceeds(tokens, summary_tokens, max) == FALSE

\* current_tokens + summary_tokens > self.max_tokens
Exceeds(tokens, summary_tokens, max) == tokens + summary_tokens > max

LoopBodyCloseAfter(l, file_meta, max) ==
    IF HasError(file_meta) THEN l
    ELSE IF Exceeds(l.current_tokens, SummaryTokens(file_meta), max)
         THEN [chunks |-> Append(l.chunks, Append(l.current_chunk, file_meta)),
               current_chunk |-> <<>>,
               current_tokens |-> 0]
         ELSE [chunks |-> l.chunks,
               current_chunk |-> Append(l.current_chunk, file_meta),
               current_tokens |-> l.current_tokens + SummaryTokens(file_meta)]

\* the body of `for file_meta in files_metadata`, on the locals l
LoopBody(l, file_meta, max) ==
    IF HasError(file_meta) THEN l
    ELSE IF Exceeds(l.current_tokens, SummaryTokens(file_meta), max)
         THEN [chunks |-> IF l.current_chunk # <<>>
                          THEN Append(l.chunks, l.current_chunk)
                          ELSE l.chunks,
               current_chunk |-> <<file_meta>>,
               current_tokens |-> SummaryTokens(file_meta)]
         ELSE [chunks |-> l.chunks,
               current_chunk |-> Append(l.current_chunk, file_meta),
               current_tokens |-> l.current_tokens + SummaryTokens(file_meta)]

\* the for loop from the k-th file on
RECURSIVE ForLoop(_, _, _, _)
ForLoop(l, files, k, max) ==
    IF k > Len(files) THEN l
    ELSE ForLoop(LoopBody(l, files[k], max), files, k + 1, max)

AfterLoopUnguarded(l) == [l EXCEPT !.chunks = Append(@, l.current_chunk)]

AfterLoopDropped(l) == l

\* if current_chunk: chunks.append(current_chunk)
AfterLoop(l) ==
    IF l.current_chunk # <<>>
    THEN [l EXCEPT !.chunks = Append(@, l.current_chunk)]
    ELSE l

\* create_chunks, from its first line to its return, on the locals it leaves
CreateChunksFrom(left, files, max) ==
    AfterLoop(ForLoop(InitialLocals(left), files, 1, max))

\* what create_chunks(files) returns
CreateChunks(files, max) ==
    CreateChunksFrom([chunks |-> <<>>, current_chunk |-> <<>>,
                      current_tokens |-> 0], files, max).chunks

NoCall ==
    [made |-> FALSE, files |-> <<>>, chunks |-> <<>>,
     other |-> FALSE, again |-> FALSE]

\* SmartChunker.__init__, with settings.MAX_CHUNK_TOKENS one of budgets; the
\* files of the first call are one of inputs
ChunkerInit(budgets, inputs) ==
    /\ max_tokens \in budgets
    /\ files_metadata \in inputs
    /\ chunks = <<>>
    /\ current_chunk = <<>>
    /\ current_tokens = 0
    /\ first_call = NoCall

\* the locals the last call left
Left ==
    [chunks |-> chunks, current_chunk |-> current_chunk,
     current_tokens |-> current_tokens]

\* one call create_chunks(files) on the chunker
create_chunks(files) ==
    LET l == CreateChunksFrom(Left, files, max_tokens)
    IN  /\ files_metadata' = files
        /\ chunks' = l.chunks
        /\ current_chunk' = l.current_chunk
        /\ current_tokens' = l.current_tokens
        /\ UNCHANGED max_tokens

(***************************************************************************)
(* Init: TaskScheduler.__init__(max_parallel); no run submitted yet.       *)
(***************************************************************************)
(***************************************************************************)
(* The routes of generate.py and the GroqClient, before any request.       *)
(***************************************************************************)
\* the most sessions uploaded, generations accepted and concurrent
\* GroqClient.generate calls
MaxSessions == 2
MaxGenerations == 3
MaxRequests == 2

Sessions == 1..MaxSessions

NoResponse == [session |-> 0, code |-> 0]

\* generation_tasks = {} and active_sessions = {}: generation_tasks[s] = 0
\* stands for a session that is not a key
GenerateInit ==
    /\ active_sessions = {}
    /\ generation_tasks = [s \in Sessions |-> 0]
    /\ task_dicts = <<>>
    /\ background = <<>>
    /\ response = NoResponse

\* no generate call has been made
NoRequest ==
    [status |-> "idle", max_retries |-> 0, attempt |-> 0, calls |-> 0,
     failed |-> 0]

\* self.last_request_time = 0
GroqInit ==
    /\ llm_requests = [r \in 1..MaxRequests |-> NoRequest]
    /\ last_request_time = 0

ServiceInit == GenerateInit /\ GroqInit

TaskSchedulerInit(capacities) ==
    /\ max_parallel \in capacities
    /\ completed_stages = {}
    /\ failed_stages = {}
    /\ results = << >>
    /\ semaphore = [value |-> max_parallel, waiters |-> <<>>]
    /\ sorted_tasks = <<>>
    /\ agent_func = <<>>
    /\ pc = <<>>
    /\ start_time = <<>>
    /\ wake = <<>>
    /\ first_failure = NoOutcome
    /\ outcome = <<>>
    /\ calls = <<>>
    /\ launched = 0
    /\ now = 0
    /\ run = [status |-> "idle", cause |-> NoCause]
    /\ runs = 0

SchedulerInit == TaskSchedulerInit(1..MaxParallel)

Init == SchedulerInit /\ ChunkerInit({MAX_CHUNK_TOKENS}, {<<>>}) /\ ServiceInit

(***************************************************************************)
(* schedule_and_execute, up to the await of asyncio.gather: the tasks are  *)
(* sorted and one execute_task coroutine is created for each.              *)
(***************************************************************************)
Schedule(lists, max_runs) ==
    /\ run.status # "running"
    /\ runs < max_runs
    /\ \E tasks \in lists : \E funcs \in [1..Len(tasks) -> AgentFuncs] :
         /\ sorted_tasks' = SortedTasks(tasks)
         /\ agent_func' = funcs
         /\ pc' = [k \in 1..Len(tasks) |-> "Pending"]
         /\ start_time' = [k \in 1..Len(tasks) |-> 0]
         /\ wake' = [k \in 1..Len(tasks) |-> 0]
         /\ outcome' = [k \in 1..Len(tasks) |-> NoOutcome]
         /\ calls' = [k \in 1..Len(tasks) |-> 0]
    /\ first_failure' = NoOutcome
    /\ launched' = 0
    /\ now' = 0
    /\ run' = [status |-> "running", cause |-> NoCause]
    /\ runs' = runs + 1
    /\ UNCHANGED << service_vars, chunker_vars, max_parallel, scheduler_vars, semaphore >>

ScheduleAndExecute == Schedule(TaskLists, MaxRuns)

(***************************************************************************)
(* _wait_for_dependencies and the code of execute_task around it.          *)
(***************************************************************************)
SomeCompleted(dependencies, completed) ==
    dependencies = <<>> \/ \E k \in 1..Len(dependencies) : dependencies[k] \in completed

\* not dependencies, or all(dep in self.completed_stages for dep in dependencies)
AllCompleted(dependencies, completed) ==
    \A k \in 1..Len(dependencies) : dependencies[k] \in completed

\* leaving `async with self.semaphore` at position i, which ends with pc p:
\* the slot is released and the first queued task, if any, is admitted
Leave(i, p, sem) ==
    /\ semaphore' = Release(sem)
    /\ pc' = [k \in Positions |->
                IF k = i THEN p
                ELSE IF k = Woken(sem) THEN "Admitted"
                ELSE pc[k]]

RaiseAndRetry(i, e, sem) ==
    /\ failed_stages' = failed_stages \cup {StageOf(i)}
    /\ pc' = [pc EXCEPT ![i] = "Admitted"]
    /\ semaphore' = sem
    /\ UNCHANGED << completed_stages, results, outcome, first_failure >>

\* the except branch of execute_task: mark failed, re-raise out of the
\* `async with`; gather keeps the exception
Raise(i, e, sem) ==
    /\ failed_stages' = failed_stages \cup {StageOf(i)}
    /\ outcome' = [outcome EXCEPT ![i] = e]
    /\ first_failure' = IF first_failure = NoOutcome THEN e ELSE first_failure
    /\ Leave(i, "Failed", sem)
    /\ UNCHANGED << completed_stages, results >>

TimedOutAtOnce(elapsed) == elapsed >= 0

NeverTimedOut(elapsed) == FALSE

\* if elapsed > timeout
TimedOut(elapsed) == elapsed > Deadline

VerdictTimeoutFirst(dependencies, completed, failed, elapsed) ==
    IF AllCompleted(dependencies, completed) THEN "ready"
    ELSE IF TimedOut(elapsed) THEN "timeout"
    ELSE IF SelectIn(dependencies, failed) # <<>> THEN "failed"
    ELSE "sleep"

VerdictWithoutTimeout(dependencies, completed, failed, elapsed) ==
    IF AllCompleted(dependencies, completed) THEN "ready"
    ELSE IF SelectIn(dependencies, failed) # <<>> THEN "failed"
    ELSE "sleep"

\* one evaluation of the loop of _wait_for_dependencies: the condition of the
\* while, then the failed check, then the timeout check, then the sleep
Verdict(dependencies, completed, failed, elapsed) ==
    IF AllCompleted(dependencies, completed) THEN "ready"
    ELSE IF SelectIn(dependencies, failed) # <<>> THEN "failed"
    ELSE IF TimedOut(elapsed) THEN "timeout"
    ELSE "sleep"

\* one evaluation of the wait loop by position i, which holds a slot of sem
\* and whose wait began at st; when the dependencies are satisfied agent_func
\* is called in the same step, with self.results
WaitStep(i, st, sem) ==
    LET deps == sorted_tasks[i].dependencies
        verdict == Verdict(deps, completed_stages, failed_stages, now - st)
    IN  \* start_time is a local of the call: it is kept while the task sleeps
        /\ start_time' = [start_time EXCEPT
                            ![i] = IF verdict = "sleep" THEN st ELSE 0]
        /\ CASE verdict = "ready" ->
                  /\ pc' = [pc EXCEPT ![i] = "Running"]
                  /\ calls' = [calls EXCEPT ![i] = @ + 1]
                  /\ semaphore' = sem
                  /\ UNCHANGED << scheduler_vars, outcome, first_failure >>
             [] verdict = "failed" ->
                  /\ Raise(i, DependenciesFailed(SelectIn(deps, failed_stages)), sem)
                  /\ UNCHANGED calls
             [] verdict = "timeout" ->
                  /\ Raise(i, TimeoutError(SelectNotIn(deps, completed_stages)), sem)
                  /\ UNCHANGED calls
             [] verdict = "sleep" ->
                  /\ pc' = [pc EXCEPT ![i] = "Waiting"]
                  /\ semaphore' = sem
                  /\ UNCHANGED << scheduler_vars, outcome, calls, first_failure >>

run_vars == << max_parallel, sorted_tasks, agent_func, run, runs >>

(***************************************************************************)
(* The first step of the next execute_task coroutine, in the order of      *)
(* sorted_tasks: `async with self.semaphore`.  With a free slot the task   *)
(* goes on into _wait_for_dependencies at once, otherwise it queues.       *)
(* Steps of tasks launched earlier may come in between: an agent_func that *)
(* does not suspend completes inside its task's first step.                *)
(***************************************************************************)
Launch ==
    /\ run.status = "running"
    /\ launched < Len(sorted_tasks)
    /\ LET i == launched + 1
       IN  IF Locked(semaphore)
           THEN /\ semaphore' = [semaphore EXCEPT !.waiters = Append(@, i)]
                /\ pc' = [pc EXCEPT ![i] = "Queued"]
                /\ UNCHANGED << scheduler_vars, start_time, outcome, calls,
                                first_failure >>
           ELSE WaitStep(i, now, [semaphore EXCEPT !.value = @ - 1])
    /\ launched' = launched + 1
    /\ UNCHANGED << service_vars, chunker_vars, run_vars, now, wake >>

(***************************************************************************)
(* A task admitted by a release resumes in acquire() and enters            *)
(* _wait_for_dependencies.                                                 *)
(***************************************************************************)
Resume(i) ==
    /\ run.status = "running"
    /\ i \in Positions
    /\ pc[i] = "Admitted"
    /\ WaitStep(i, now, semaphore)
    /\ UNCHANGED << service_vars, chunker_vars, run_vars, launched, now, wake >>

(***************************************************************************)
(* A waiting task wakes from asyncio.sleep(0.1) and evaluates the loop     *)
(* again.  The sleep is shorter than one step of the clock, so a poll may  *)
(* come at any clock value.                                                *)
(***************************************************************************)
Poll(i) ==
    /\ run.status = "running"
    /\ i \in Positions
    /\ pc[i] = "Waiting"
    /\ WaitStep(i, start_time[i], semaphore)
    /\ UNCHANGED << service_vars, chunker_vars, run_vars, launched, now, wake >>

(***************************************************************************)
(* agent_func returns: the result is stored, the stage marked completed,   *)
(* the slot released, all before the next suspension point.                *)
(***************************************************************************)
ResultOf(i) == [stage |-> StageOf(i), run |-> runs]

StoreDropped(map, stage, result) == map

\* the context argument of task.agent_func(task.input_data, self.results) at
\* position i: the dictionary of the scheduler itself, not a copy of it
ContextOf(i) == results

\* self.results[task.stage] = result
Store(map, stage, result) ==
    [s \in DOMAIN map \cup {stage} |-> IF s = stage THEN result ELSE map[s]]

AgentReturns(i) ==
    /\ run.status = "running"
    /\ i \in Positions
    /\ pc[i] = "Running"
    /\ agent_func[i] = "ok"
    /\ results' = Store(results, StageOf(i), ResultOf(i))
    /\ completed_stages' = completed_stages \cup {StageOf(i)}
    /\ outcome' = [outcome EXCEPT ![i] = Returned(ResultOf(i))]
    /\ Leave(i, "Completed", semaphore)
    /\ UNCHANGED << service_vars, chunker_vars, run_vars, failed_stages, start_time, calls, launched, now,
                    wake, first_failure >>

(***************************************************************************)
(* agent_func raises: the except branch of execute_task.                   *)
(***************************************************************************)
AgentRaises(i) ==
    /\ run.status = "running"
    /\ i \in Positions
    /\ pc[i] = "Running"
    /\ agent_func[i] = "raise"
    /\ Raise(i, AgentError, semaphore)
    /\ UNCHANGED << service_vars, chunker_vars, run_vars, start_time, calls, launched, now, wake >>

(***************************************************************************)
(* The clock advances while some coroutine is suspended in the sleep of    *)
(* the wait loop or inside agent_func; the steps of the coroutines         *)
(* themselves take no time.                                                *)
(***************************************************************************)
Tick ==
    /\ run.status = "running"
    /\ \E k \in Positions : pc[k] \in {"Waiting", "Running"}
    /\ now < MaxTime
    /\ now' = now + TimeStep
    /\ UNCHANGED << service_vars, chunker_vars, run_vars, scheduler_vars, semaphore, pc, start_time,
                    outcome, calls, launched, wake, first_failure >>

(***************************************************************************)
(* asyncio.gather is done when every task is: schedule_and_execute raises  *)
(* on the first exception of the list, else returns self.results.          *)
(***************************************************************************)
SomeDone == \E k \in Positions : outcome[k].kind # "none"

\* every awaitable handed to gather has returned or raised
AllDone == \A k \in Positions : outcome[k].kind # "none"

\* failures = [r for r in results if isinstance(r, Exception)]
Failures(gathered) == SelectSeq(gathered, LAMBDA r : r.kind = "exception")

GatherDone ==
    /\ run.status = "running"
    /\ launched = Len(sorted_tasks)
    /\ AllDone
    /\ run' = IF Failures(outcome) # <<>>
              THEN RunFailure(Failures(outcome))
              ELSE [status |-> "returned", cause |-> NoCause]
    /\ UNCHANGED << service_vars, chunker_vars, max_parallel, sorted_tasks, agent_func, runs,
                    scheduler_vars,
                    semaphore, pc, start_time, outcome, calls, launched, now,
                    wake, first_failure >>

Next ==
    \/ ScheduleAndExecute
    \/ Launch
    \/ \E i \in Positions : Resume(i)
    \/ \E i \in Positions : Poll(i)
    \/ \E i \in Positions : AgentReturns(i)
    \/ \E i \in Positions : AgentRaises(i)
    \/ Tick
    \/ GatherDone

Spec == Init /\ [][Next]_vars

(***************************************************************************)
(* Properties.                                                             *)
(***************************************************************************)
DepsOf(i) == Range(sorted_tasks[i].dependencies)

\* the position of a stage in the current run (0: not submitted)
PosOf(stage) ==
    IF \E k \in Positions : StageOf(k) = stage
    THEN CHOOSE k \in Positions : StageOf(k) = stage
    ELSE 0

\* the current run is of the graph A -> {B, C} the coordinator declares
CoordinatorGraph == sorted_tasks = SortedTasks(CoordinatorTasks)

RunningCount == Cardinality({k \in Positions : pc[k] = "Running"})

\* C1: agent_func of a task is called only in a state in which every one of
\* its dependencies is in completed_stages (so in A -> {B, C} never before
\* the analysis stage is there), whatever the capacity and the interleaving.
C1_InvokedOnlyWhenCompleted ==
    [][\A i \in DOMAIN calls :
          (i \in DOMAIN calls' /\ calls'[i] > calls[i])
              => DepsOf(i) \subseteq completed_stages]_vars

\* a dependent task of a first run is inside agent_func, its dependencies completed
C1_Witness ==
    \E i \in Positions :
        /\ runs = 1
        /\ pc[i] = "Running"
        /\ calls[i] = 1
        /\ DepsOf(i) # {}
        /\ DepsOf(i) \subseteq completed_stages

\* C2: at most max_parallel tasks are inside agent_func at the same time.
C2_ConcurrencyBound == RunningCount <= max_parallel

\* the gate is full in a first run: two tasks are inside agent_func at once
C2_Witness ==
    /\ runs = 1
    /\ max_parallel >= 2
    /\ RunningCount = max_parallel

(***************************************************************************)
(* The scheduling the event loop guarantees: a coroutine that can take a   *)
(* step takes it, an agent_func settles, gather returns.  Nothing obliges  *)
(* the caller to submit a run or the clock to advance.                     *)
(***************************************************************************)
Fairness ==
    /\ WF_vars(Launch)
    /\ WF_vars(GatherDone)
    /\ \A i \in 1..MaxTasks :
         /\ WF_vars(Resume(i))
         /\ WF_vars(Poll(i) /\ pc'[i] # pc[i])
         /\ WF_vars(AgentReturns(i))
         /\ WF_vars(AgentRaises(i))

\* a scheduler of capacity 1, fairly scheduled
InitCapacity1 == Init /\ max_parallel = 1

FairSpec == InitCapacity1 /\ [][Next]_vars /\ Fairness

AllAgentsReturn == \A k \in Positions : agent_func[k] = "ok"

\* C3: a run of the graph A -> {B, C} at capacity 1 whose three agent_funcs
\* return ends by returning, with the three tasks completed and a result for
\* each of the three stages in the map.
C3_Capacity1Completes ==
    (run.status = "running" /\ max_parallel = 1 /\ CoordinatorGraph /\ AllAgentsReturn)
        ~> (/\ run.status = "returned"
            /\ \A k \in Positions : pc[k] = "Completed"
            /\ {ANALYSIS, API_DOCS, README} \subseteq DOMAIN results)

\* such a run has returned, on a scheduler that ran nothing before
C3_Witness ==
    /\ runs = 1
    /\ max_parallel = 1
    /\ CoordinatorGraph
    /\ AllAgentsReturn
    /\ run.status = "returned"
    /\ DOMAIN results = {ANALYSIS, API_DOCS, README}

(***************************************************************************)
(* Failure of a dependency.                                                *)
(***************************************************************************)
Ended(i) == outcome[i].kind # "none"

\* position i evaluates its wait loop in this step (a poll that goes back to
\* sleep changes nothing and is no step)
EvaluatesLoop(i) ==
    /\ i \in DOMAIN pc /\ i \in DOMAIN pc'
    /\ sorted_tasks' = sorted_tasks /\ runs' = runs
    /\ \/ pc[i] = "Pending" /\ pc'[i] \notin {"Pending", "Queued"}
       \/ pc[i] = "Admitted" /\ pc'[i] # "Admitted"
       \/ pc[i] = "Waiting" /\ pc'[i] # "Waiting"

\* C4, as claimed: in a run on a new scheduler, a task one of whose
\* dependencies has failed ends with the "Dependencies failed" exception
\* without its agent_func having been called; so B and C when A's agent_func
\* raises.
C4_DependentsEndDependencyFailed ==
    runs = 1 =>
        \A i \in Positions :
            (Ended(i) /\ DepsOf(i) \cap failed_stages # {})
                => /\ outcome[i].msg = "Dependencies failed"
                   /\ calls[i] = 0

\* C4, amended: a task that evaluates its wait loop while not all of its
\* dependencies are completed and one of them is failed ends Failed in that
\* step, with the "Dependencies failed" exception naming its dependencies
\* then in failed_stages, and its agent_func is not called; and in
\* A -> {B, C}, when A's agent_func raises and A is not in completed_stages,
\* B and C end without a call of their agent_func, with that exception or, if
\* their wait passed the deadline before A failed, with the timeout.
C4_FailedDependencyAborts ==
    /\ [][\A i \in DOMAIN pc :
            (/\ EvaluatesLoop(i)
             /\ ~AllCompleted(sorted_tasks[i].dependencies, completed_stages)
             /\ DepsOf(i) \cap failed_stages # {})
                => /\ pc'[i] = "Failed"
                   /\ outcome'[i] = DependenciesFailed(
                          SelectIn(sorted_tasks[i].dependencies, failed_stages))
                   /\ calls'[i] = 0
                   /\ StageOf(i) \in failed_stages']_vars
    /\ [](\A i \in Positions :
            (/\ CoordinatorGraph
             /\ outcome[PosOf(ANALYSIS)] = AgentError
             /\ ANALYSIS \notin completed_stages
             /\ ANALYSIS \in DepsOf(i)
             /\ Ended(i))
                => /\ calls[i] = 0
                   /\ pc[i] = "Failed"
                   /\ outcome[i] \in {DependenciesFailed(<<ANALYSIS>>),
                                      TimeoutError(<<ANALYSIS>>)})

\* A's agent_func has raised and B and C have both ended "Dependencies failed"
C4_Witness ==
    /\ CoordinatorGraph
    /\ outcome[PosOf(ANALYSIS)] = AgentError
    /\ \A i \in Positions :
         ANALYSIS \in DepsOf(i)
            => /\ outcome[i] = DependenciesFailed(<<ANALYSIS>>)
               /\ calls[i] = 0

(***************************************************************************)
(* The failure of the run.                                                 *)
(***************************************************************************)
\* C5: in A -> {B, C}, when A's agent_func raises, the exception of the run
\* carries the exception of A's task: A's is the first in gather's list, and
\* the cause is not a "Dependencies failed" of B or C.
C5_RunFailureIsAnalysisFailure ==
    (/\ run.status = "raised"
     /\ Range([k \in Positions |-> StageOf(k)]) = {ANALYSIS, API_DOCS, README}
     /\ \A k \in Positions :
          sorted_tasks[k].dependencies =
              IF StageOf(k) = ANALYSIS THEN <<>> ELSE <<ANALYSIS>>
     /\ outcome[PosOf(ANALYSIS)] = AgentError)
        => /\ \A k \in 1..(PosOf(ANALYSIS) - 1) : outcome[k].kind # "exception"
           /\ run.cause = Str(outcome[PosOf(ANALYSIS)])
           /\ run.cause.msg # "Dependencies failed"

\* the run has raised after A's agent_func raised and B and C were aborted
C5_Witness ==
    /\ run.status = "raised"
    /\ C4_Witness
    /\ run.cause = Str(AgentError)

\* the stages whose task has failed in the current run
FailedInRun == {StageOf(k) : k \in {j \in Positions : pc[j] = "Failed"}}

\* C6: the exception of a failed run names a stage whose task failed in it.
C6_RunFailureNamesFailedStage ==
    run.status = "raised" => Range(run.cause.names) \cap FailedInRun # {}

(***************************************************************************)
(* The state of the scheduler over its runs.                               *)
(***************************************************************************)
\* C7: when a run returns the map, failed_stages is empty and every
\* submitted task is completed with its result in the map.
C7_ReturnMeansNoFailure ==
    run.status = "returned" =>
        /\ failed_stages = {}
        /\ \A k \in Positions :
             StageOf(k) \in completed_stages /\ StageOf(k) \in DOMAIN results

\* C8: no stage is in both completed_stages and failed_stages.
C8_CompletedFailedDisjoint == completed_stages \cap failed_stages = {}

\* C9: a run starts with empty results, completed_stages and failed_stages.
C9_RunStartsEmpty ==
    (run.status = "running" /\ launched = 0) =>
        /\ completed_stages = {}
        /\ failed_stages = {}
        /\ DOMAIN results = {}

BecomesFailed(i) ==
    /\ i \in DOMAIN pc /\ i \in DOMAIN pc'
    /\ pc[i] # "Failed" /\ pc'[i] = "Failed"

\* C10: in every state another task can observe, the stages with an entry in
\* results are the completed_stages, each entry being that stage's result;
\* and the step in which a task fails stores nothing in results.
C10_PublishIsIndivisible ==
    /\ [](/\ DOMAIN results = completed_stages
          /\ \A st \in DOMAIN results : results[st].stage = st)
    /\ [][\A i \in DOMAIN pc : BecomesFailed(i) => results' = results]_vars

\* a task polls while one stage is published and another task has failed
C10_Witness ==
    /\ runs = 1
    /\ \E i, j, k \in Positions :
         /\ pc[i] = "Completed" /\ StageOf(i) \in DOMAIN results
         /\ pc[j] = "Failed" /\ StageOf(j) \notin DOMAIN results
         /\ pc[k] = "Waiting"

(***************************************************************************)
(* The wait loop on the clock of its own sleep.  Under Spec a poll may     *)
(* come at any clock value; here every asyncio.sleep(0.1) of a waiting     *)
(* task lasts exactly PollInterval, the clock advances by one PollInterval *)
(* at a time and never past a sleep that has ended.  One run is followed,  *)
(* of a task whose prerequisite was not submitted or of a task whose       *)
(* prerequisite may run for longer than the deadline; a wait begins at     *)
(* most MaxStartDelay after the run.                                       *)
(***************************************************************************)
MaxStartDelay == 2

TimedMaxTime == Deadline + PollInterval + MaxStartDelay

SlowTasks ==
    << AgentTask(ANALYSIS, <<>>, 10),
       AgentTask(API_DOCS, <<ANALYSIS>>, 5) >>

TimedTaskLists == {UnmetTasks, SlowTasks}

ScheduleTimed == Schedule(TimedTaskLists, 1)

\* the clock value at which the sleep of waiting position i ends: the first
\* sleep begins with the wait, every later one with the poll before it
Due(i) ==
    IF wake[i] > start_time[i] THEN wake[i] ELSE start_time[i] + PollInterval

TimedPoll(i) ==
    /\ run.status = "running"
    /\ i \in Positions
    /\ pc[i] = "Waiting"
    /\ now >= Due(i)
    /\ WaitStep(i, start_time[i], semaphore)
    /\ wake' = [wake EXCEPT ![i] = IF pc'[i] = "Waiting"
                                   THEN now + PollInterval ELSE 0]
    /\ UNCHANGED << service_vars, chunker_vars, run_vars, launched, now >>

TimedTick ==
    /\ run.status = "running"
    /\ \/ \E k \in Positions : pc[k] = "Waiting"
       \/ now < MaxStartDelay /\ \E k \in Positions : pc[k] = "Running"
    /\ \A k \in Positions : pc[k] = "Waiting" => now < Due(k)
    /\ now < TimedMaxTime
    /\ now' = now + PollInterval
    /\ UNCHANGED << service_vars, chunker_vars, run_vars, scheduler_vars, semaphore, pc, start_time,
                    outcome, calls, launched, wake, first_failure >>

TimedNext ==
    \/ ScheduleTimed
    \/ Launch
    \/ \E i \in Positions : Resume(i)
    \/ \E i \in Positions : TimedPoll(i)
    \/ \E i \in Positions : AgentReturns(i)
    \/ \E i \in Positions : AgentRaises(i)
    \/ TimedTick
    \/ GatherDone

TimedSpec == Init /\ [][TimedNext]_vars

\* the prerequisites of position i that are not completed
Missing(i) == SelectNotIn(sorted_tasks[i].dependencies, completed_stages)

\* C11: a task one of whose prerequisites is never completed, and none of
\* whose prerequisites fails, does not wait for longer than the deadline and
\* one polling interval; it ends with a TimeoutError that names the
\* prerequisites still missing, and its agent_func is never called.
C11_UnmetPrerequisiteTimesOut ==
    \A i \in Positions :
        /\ pc[i] = "Waiting" => now - start_time[i] <= Deadline + PollInterval
        /\ ( /\ Ended(i)
             /\ Missing(i) # <<>>
             /\ DepsOf(i) \cap failed_stages = {} )
           => /\ outcome[i].kind = "exception"
              /\ outcome[i].type = "TimeoutError"
              /\ outcome[i].names # <<>>
              /\ Range(Missing(i)) \subseteq Range(outcome[i].names)
              /\ Range(outcome[i].names) \subseteq DepsOf(i)
              /\ calls[i] = 0
              /\ pc[i] = "Failed"

\* a task has timed out exactly one polling interval after its deadline,
\* while its prerequisite is still running
C11_Witness ==
    \E i \in Positions :
        /\ outcome[i] = TimeoutError(<<ANALYSIS>>)
        /\ now = Deadline + PollInterval
        /\ calls[i] = 0
        /\ \E k \in Positions : StageOf(k) = ANALYSIS /\ pc[k] = "Running"

\* C12: in a run agent_func is called at most once for every task, and once
\* for every task when schedule_and_execute returns; a task that ended
\* failed stays failed and is not called again in the run.
C12_InvokedAtMostOnce ==
    [][ /\ \A i \in DOMAIN calls' : calls'[i] <= 1
        /\ run'.status = "returned" => \A i \in DOMAIN calls' : calls'[i] = 1
        /\ \A i \in Positions :
              (pc[i] = "Failed" /\ runs' = runs)
                  => pc'[i] = "Failed" /\ calls'[i] = calls[i]
                     /\ outcome'[i] = outcome[i] ]_vars

\* a run has failed with one task whose agent_func raised in its only call
\* and one task that failed without a call
C12_Witness ==
    /\ run.status = "raised"
    /\ \E i, j \in Positions :
          /\ pc[i] = "Failed" /\ calls[i] = 1
          /\ pc[j] = "Failed" /\ calls[j] = 0

\* position i comes before position j in the order in which the coroutines
\* are given to asyncio.gather: by the sort key, ties in the order submitted
Precedes(i, j) ==
    i < j /\ ~KeyLess(sorted_tasks[j], sorted_tasks[i])

FailedPositions == {i \in Positions : outcome[i].kind = "exception"}

\* C13 as stated: a run with a failed task raises, and the cause it reports
\* is the exception that was raised first in time in the run.
C13_CauseIsFirstInTime ==
    /\ (run.status \notin {"idle", "running"} /\ FailedPositions # {})
           => run.status = "raised"
    /\ run.status = "raised" => run.cause = Str(first_failure)

\* C13: a run with a failed task raises, and the cause it reports is the
\* exception of the failed task that is first in the order of execution
\* (fewest dependencies, then highest priority, then as submitted).
C13_CauseIsFirstInOrder ==
    /\ (run.status \notin {"idle", "running"} /\ FailedPositions # {})
           => run.status = "raised"
    /\ run.status = "raised" =>
          \E i \in FailedPositions :
              /\ run.cause = Str(outcome[i])
              /\ \A j \in FailedPositions \ {i} : Precedes(i, j)

\* a run has raised the exception of its first task although a later task
\* had timed out before that exception was raised
C13_Witness ==
    /\ run.status = "raised"
    /\ first_failure.type = "TimeoutError"
    /\ outcome[1] = AgentError
    /\ run.cause = Str(AgentError)

(***************************************************************************)
(* create_chunks as a function: the files and the budget are drawn, and    *)
(* the one call of a behaviour partitions them.                            *)
(***************************************************************************)
task_scheduler_vars ==
    << max_parallel, completed_stages, failed_stages, results, semaphore,
       sorted_tasks, agent_func, pc, start_time, wake, first_failure, outcome,
       calls, launched, now, run, runs >>

PartitionInit ==
    /\ SchedulerInit
    /\ max_parallel = 1
    /\ ChunkerInit(Budgets, FilesMetadata(MaxFiles, SummaryCosts))
    /\ ServiceInit

Partition ==
    /\ ~first_call.made
    /\ create_chunks(files_metadata)
    /\ first_call' = [NoCall EXCEPT !.made = TRUE, !.files = files_metadata,
                                    !.chunks = chunks']
    /\ UNCHANGED << service_vars, task_scheduler_vars >>

PartitionNext == Partition

PartitionSpec == PartitionInit /\ [][PartitionNext]_vars

\* create_chunks has returned
Called == first_call.made

RECURSIVE Flatten(_)
Flatten(batches) ==
    IF batches = <<>> THEN <<>>
    ELSE Head(batches) \o Flatten(Tail(batches))

RECURSIVE Cost(_)
Cost(batch) ==
    IF batch = <<>> THEN 0
    ELSE Head(batch).summary_tokens + Cost(Tail(batch))

WithoutErrors(files) == SelectSeq(files, LAMBDA m : ~m.error)

\* C14: the chunks returned, one after the other, are the files given
\* without those that carry an error, in the order given.
C14_ChunksAreTheErrorFreeFiles ==
    Called => Flatten(chunks) = WithoutErrors(files_metadata)

\* three files, the second with an error, went into two chunks
C14_Witness ==
    /\ Called
    /\ Len(files_metadata) = 3
    /\ files_metadata[2].error
    /\ Len(chunks) = 2
    /\ Flatten(chunks) = << files_metadata[1], files_metadata[3] >>

\* C15: a chunk of more than one file has summaries of at most max_tokens
\* tokens together; only a chunk of one file can have more.
C15_LargerChunksFitBudget ==
    Called =>
        \A j \in 1..Len(chunks) :
            Len(chunks[j]) > 1 => Cost(chunks[j]) <= max_tokens

\* a chunk of one file above the budget next to a chunk of two files that
\* fills the budget to the last token
C15_Witness ==
    /\ Called
    /\ \E j \in 1..Len(chunks) :
          Len(chunks[j]) = 1 /\ Cost(chunks[j]) > max_tokens
    /\ \E j \in 1..Len(chunks) :
          Len(chunks[j]) = 2 /\ Cost(chunks[j]) = max_tokens

\* the files s1, s2, s3 whose summaries cost 4000, 3000 and 2500 tokens
RawTokens == CHOOSE t \in FileTokens : TRUE

Scenario ==
    << FileMeta(1, RawTokens, 4000), FileMeta(2, RawTokens, 3000),
       FileMeta(3, RawTokens, 2500) >>

ScenarioCalled ==
    Called /\ files_metadata = Scenario /\ max_tokens = MAX_CHUNK_TOKENS

\* C16 as stated: with a budget of 6000 the files costing 4000, 3000 and
\* 2500 are returned as [[s1, s2], [s3]].
C16_ScenarioAsStated ==
    ScenarioCalled
        => chunks = << <<Scenario[1], Scenario[2]>>, <<Scenario[3]>> >>

\* C16: with a budget of 6000 the files costing 4000, 3000 and 2500 are
\* returned as [[s1], [s2, s3]]: s2 does not fit with s1, s3 fits with s2.
C16_ScenarioChunks ==
    ScenarioCalled
        => chunks = << <<Scenario[1]>>, <<Scenario[2], Scenario[3]>> >>

C16_Witness ==
    /\ ScenarioCalled
    /\ Len(chunks) = 2
    /\ Cost(chunks[1]) = 4000 /\ Cost(chunks[2]) = 5500

\* file k of the last call has no error and costs more than the budget
Oversized(k) ==
    /\ ~files_metadata[k].error
    /\ files_metadata[k].summary_tokens > max_tokens

\* C17: a file whose summary alone costs more than max_tokens is returned
\* as a chunk of its own, wherever it stands among the files; the single
\* file of 9000 tokens with a budget of 6000 is returned as [[s1]].
C17_OversizedIsSingleton ==
    Called =>
        /\ \A k \in 1..Len(files_metadata) :
              Oversized(k)
                  => \E j \in 1..Len(chunks) : chunks[j] = <<files_metadata[k]>>
        /\ ( /\ files_metadata = <<FileMeta(1, RawTokens, 9000)>>
             /\ max_tokens = MAX_CHUNK_TOKENS )
               => chunks = << <<FileMeta(1, RawTokens, 9000)>> >>

\* an oversized file between two files that fit: three chunks
C17_Witness ==
    /\ Called
    /\ max_tokens = MAX_CHUNK_TOKENS
    /\ Len(files_metadata) = 3
    /\ ~Oversized(1) /\ ~files_metadata[1].error
    /\ Oversized(2)
    /\ ~Oversized(3) /\ ~files_metadata[3].error
    /\ chunks = << <<files_metadata[1]>>, <<files_metadata[2]>>,
                   <<files_metadata[3]>> >>

\* C19: the files that carry an error change nothing: the chunks returned
\* are those returned for the same files without the ones with an error.
C19_ErrorsChangeNothing ==
    Called => chunks = CreateChunks(WithoutErrors(files_metadata), max_tokens)

\* a file with an error stood between two files that share a chunk
C19_Witness ==
    /\ Called
    /\ Len(files_metadata) = 3
    /\ files_metadata[2].error
    /\ chunks = << <<files_metadata[1], files_metadata[3]>> >>

(***************************************************************************)
(* One chunker called again and again: create_chunks calls follow one      *)
(* another on the same SmartChunker, with any files; the first call is     *)
(* remembered, and whether other files and the same files came after it.   *)
(***************************************************************************)
MaxRepeatFiles == 2

RepeatCosts == {3000, 4000}

RepeatInit ==
    /\ SchedulerInit
    /\ max_parallel = 1
    /\ ChunkerInit(Budgets, {<<>>})
    /\ ServiceInit

CallCreateChunks ==
    /\ \E files \in FilesMetadata(MaxRepeatFiles, RepeatCosts) :
          /\ create_chunks(files)
          /\ first_call' =
                IF ~first_call.made
                THEN [NoCall EXCEPT !.made = TRUE, !.files = files,
                                    !.chunks = chunks']
                ELSE IF files # first_call.files
                THEN [first_call EXCEPT !.other = TRUE]
                ELSE [first_call EXCEPT !.again = TRUE]
    /\ UNCHANGED << service_vars, task_scheduler_vars >>

RepeatNext == CallCreateChunks

RepeatSpec == RepeatInit /\ [][RepeatNext]_vars

\* C18: a call with the files of the first call returns the chunks of the
\* first call, whatever calls were made on the chunker in between, and no
\* call changes the budget of the chunker.
C18_SameFilesSameChunks ==
    [][ /\ (first_call'.made /\ files_metadata' = first_call'.files)
              => chunks' = first_call'.chunks
        /\ max_tokens' = max_tokens ]_vars

\* the files of the first call were given again after other files, and
\* came back in two chunks
C18_Witness ==
    /\ first_call.made /\ first_call.other /\ first_call.again
    /\ files_metadata = first_call.files
    /\ Len(chunks) = 2

(***************************************************************************)
(* AgentCoordinator: __init__ creates its scheduler with max_parallel=3,   *)
(* and every coordinate call gives the same three tasks to it.  With three *)
(* slots for three tasks no task queues at the semaphore, so no task is    *)
(* ever resumed by a release.                                              *)
(***************************************************************************)
CoordinatorParallel == 3

CoordinatorInit ==
    /\ TaskSchedulerInit({CoordinatorParallel})
    /\ ChunkerInit({MAX_CHUNK_TOKENS}, {<<>>})
    /\ ServiceInit

\* coordinate, up to the await of schedule_and_execute
Coordinate == Schedule({CoordinatorTasks}, MaxRuns)

CoordinatorNext ==
    \/ Coordinate
    \/ Launch
    \/ \E i \in Positions : Poll(i)
    \/ \E i \in Positions : AgentReturns(i)
    \/ \E i \in Positions : AgentRaises(i)
    \/ Tick
    \/ GatherDone

CoordinatorSpec == CoordinatorInit /\ [][CoordinatorNext]_vars

\* C20: the coordinator gives three tasks to its scheduler: analysis without
\* dependencies, api_documentation and readme_creation each depending on
\* analysis alone; when coordinate returns, the results it returns have
\* these three stages as keys and no other.
C20_CoordinatorSubmitsItsGraph ==
    /\ run.status # "idle" =>
          /\ Len(sorted_tasks) = 3
          /\ \E a, b, c \in Positions :
                /\ StageOf(a) = ANALYSIS /\ sorted_tasks[a].dependencies = <<>>
                /\ StageOf(b) = API_DOCS
                /\ sorted_tasks[b].dependencies = <<ANALYSIS>>
                /\ StageOf(c) = README
                /\ sorted_tasks[c].dependencies = <<ANALYSIS>>
    /\ run.status = "returned" => DOMAIN results = {ANALYSIS, API_DOCS, README}

\* the first coordinate call has returned the results of its three agents
C20_Witness ==
    /\ runs = 1
    /\ run.status = "returned"
    /\ max_parallel = CoordinatorParallel
    /\ \A i \in Positions : calls[i] = 1 /\ results[StageOf(i)] = ResultOf(i)

(***************************************************************************)
(* The semaphore under contention: one run of task lists that queue at the *)
(* semaphore, among them a list in which a task precedes its prerequisite  *)
(* in the sorted order.  The clock advances only while a waiting task can  *)
(* still pass its deadline: time that no wait loop reads changes nothing.  *)
(***************************************************************************)
\* a task with a dependency and a high priority, two without dependencies
PriorityTasks ==
    << AgentTask(API_DOCS, <<ANALYSIS>>, 9),
       AgentTask(README, <<>>, 1),
       AgentTask(ANALYSIS, <<>>, 10) >>

\* readme_creation has fewer dependencies than its prerequisite
\* architecture_docs, and is sorted before it
InvertedTasks ==
    << AgentTask(ANALYSIS, <<>>, 10),
       AgentTask(API_DOCS, <<>>, 10),
       AgentTask(ARCHITECTURE, <<ANALYSIS, API_DOCS>>, 5),
       AgentTask(README, <<ARCHITECTURE>>, 5) >>

GateTaskLists == {PriorityTasks, InvertedTasks}

MaxGateTasks ==
    CHOOSE n \in {Len(ts) : ts \in GateTaskLists} :
        \A ts \in GateTaskLists : Len(ts) <= n

ScheduleGate == Schedule(GateTaskLists, 1)

GateTick ==
    /\ run.status = "running"
    /\ \E k \in Positions :
          pc[k] = "Waiting" /\ ~TimedOut(now - start_time[k])
    /\ now' = now + TimeStep
    /\ UNCHANGED << service_vars, chunker_vars, run_vars, scheduler_vars, semaphore, pc,
                    start_time, outcome, calls, launched, wake, first_failure >>

GateNext ==
    \/ ScheduleGate
    \/ Launch
    \/ \E i \in Positions : Resume(i)
    \/ \E i \in Positions : Poll(i)
    \/ \E i \in Positions : AgentReturns(i)
    \/ \E i \in Positions : AgentRaises(i)
    \/ GateTick
    \/ GatherDone

\* a coroutine that can take a step takes it, an agent_func settles, and
\* time passes
GateFairness ==
    /\ WF_vars(Launch)
    /\ WF_vars(GatherDone)
    /\ WF_vars(GateTick)
    /\ \A i \in 1..MaxGateTasks :
         /\ WF_vars(Resume(i))
         /\ WF_vars(Poll(i) /\ pc'[i] # pc[i])
         /\ WF_vars(AgentReturns(i))
         /\ WF_vars(AgentRaises(i))

GateSpec == Init /\ [][GateNext]_vars /\ GateFairness

\* position i has not acquired the semaphore yet
AtGate(i) == pc[i] \in {"Pending", "Queued"}

\* every dependency of position i is completed
Ready(i) == DepsOf(i) \subseteq completed_stages

\* C21 as stated: no task is called while a task of higher priority, whose
\* dependencies are completed as well, is still queued at the semaphore.
C21_HigherPriorityRunsFirst ==
    [][\A i, j \in Positions :
          ( /\ runs' = runs
            /\ calls'[j] > calls[j]
            /\ pc[i] = "Queued" /\ Ready(i)
            /\ sorted_tasks[i].priority > sorted_tasks[j].priority )
              => FALSE]_vars

\* task a comes before task b by the number of dependencies, then by priority
FewerDependenciesThenPriority(a, b) ==
    \/ Len(a.dependencies) < Len(b.dependencies)
    \/ /\ Len(a.dependencies) = Len(b.dependencies)
       /\ a.priority > b.priority

\* C21: the semaphore is acquired in the order of the number of
\* dependencies, and in the order of priority only among tasks with the
\* same number of dependencies: a task has acquired it only if every task
\* with fewer dependencies, or as many and a higher priority, has.
C21_AcquiredInSortedOrder ==
    \A i, j \in Positions :
        ( /\ FewerDependenciesThenPriority(sorted_tasks[i], sorted_tasks[j])
          /\ ~AtGate(j) )
            => ~AtGate(i)

\* readme_creation (priority 1, no dependency) has been called while
\* api_documentation (priority 9), whose dependency is completed, is queued
C21_Witness ==
    \E i, j \in Positions :
        /\ StageOf(i) = README /\ sorted_tasks[i].priority = 1
        /\ StageOf(j) = API_DOCS /\ sorted_tasks[j].priority = 9
        /\ pc[i] = "Running" /\ calls[i] = 1
        /\ pc[j] = "Queued" /\ Ready(j)

\* the stages submitted in the current run
Submitted == {StageOf(k) : k \in Positions}

\* the stages that stage s depends on, through at most n dependencies
RECURSIVE Prerequisites(_, _)
Prerequisites(s, n) ==
    IF n = 0 THEN {}
    ELSE LET direct == UNION {DepsOf(k) : k \in {j \in Positions : StageOf(j) = s}}
         IN  direct \cup UNION {Prerequisites(d, n - 1) : d \in direct}

\* the stages that stage s depends on, directly or not
AllPrerequisites(s) == Prerequisites(s, Len(sorted_tasks))

\* every dependency is submitted, and no stage depends on itself
AcyclicAndClosed ==
    \A k \in Positions :
        /\ DepsOf(k) \subseteq Submitted
        /\ StageOf(k) \notin AllPrerequisites(StageOf(k))

\* C22: a run of an acyclic task list that contains all its dependencies and
\* whose agent_funcs all return ends by returning, every task completed and
\* none failed, whatever the priorities and the capacity.
C22_FeasibleRunCompletes ==
    ( /\ run.status \in {"returned", "raised"}
      /\ runs = 1
      /\ AcyclicAndClosed
      /\ AllAgentsReturn )
        => /\ run.status = "returned"
           /\ \A k \in Positions : pc[k] = "Completed"

\* position i holds a slot or has given it back
PastGate(i) == pc[i] \in {"Admitted", "Waiting", "Running", "Completed", "Failed"}

\* C23: every task queued at the semaphore eventually acquires it, whatever
\* the task list and the capacity, when every agent_func settles: a holder
\* that waits for a dependency queued behind it gives the slot back when its
\* wait times out.
C23_QueuedIsEventuallyAdmitted ==
    \A i \in 1..MaxGateTasks :
        (i \in Positions /\ pc[i] = "Queued") ~> (i \in Positions /\ PastGate(i))

\* architecture_docs was queued behind readme_creation, which held the only
\* slot waiting for it, and has been admitted after readme_creation timed out
C23_Witness ==
    \E i, j \in Positions :
        /\ max_parallel = 1
        /\ StageOf(i) = README /\ StageOf(j) = ARCHITECTURE /\ i < j
        /\ pc[i] = "Failed"
        /\ outcome[i] = TimeoutError(<<ARCHITECTURE>>)
        /\ PastGate(j) /\ calls[j] = 1


\* C24: when schedule_and_execute has returned or raised, every submitted
\* task is completed or failed: none is pending, queued, waiting or running,
\* also when another task failed earlier.
C24_RunEndsAfterEveryTask ==
    run.status \in {"returned", "raised"}
        => \A k \in Positions : pc[k] \in {"Completed", "Failed"}

\* the run has raised for a task whose agent_func raised, and a task that
\* acquired the only slot after it has completed all the same
C24_Witness ==
    \E i, j \in Positions :
        /\ max_parallel = 1 /\ i < j
        /\ run.status = "raised"
        /\ pc[i] = "Failed" /\ outcome[i] = AgentError
        /\ pc[j] = "Completed" /\ calls[j] = 1


\* position k is a dependent, directly or not, of a task that failed in the
\* current run
DependsOnFailed(k) ==
    \E j \in Positions :
        pc[j] = "Failed" /\ StageOf(j) \in AllPrerequisites(StageOf(k))

\* C25: when a run has ended, every task that depends, directly or not, on a
\* task that failed in it is failed and its agent_func was not called; every
\* other task either timed out itself or had its agent_func called, and is
\* then completed if the agent_func returns.
C25_FailureStaysWithDependents ==
    run.status \in {"returned", "raised"} =>
        \A k \in Positions :
            IF DependsOnFailed(k)
            THEN pc[k] = "Failed" /\ calls[k] = 0
            ELSE \/ outcome[k].kind = "exception" /\ outcome[k].type = "TimeoutError"
                 \/ /\ calls[k] = 1
                    /\ agent_func[k] = "ok"
                          => /\ pc[k] = "Completed"
                             /\ StageOf(k) \in completed_stages


\* the state of the task at position i in a value p of pc: a task is Pending
\* until it has acquired the semaphore, then Waiting until it leaves
\* _wait_for_dependencies
PhaseOf(p) ==
    CASE p \in {"Pending", "Queued"} -> "Pending"
      [] p \in {"Admitted", "Waiting"} -> "Waiting"
      [] OTHER -> p

\* position i acquires a slot of the semaphore in this step and goes through
\* _wait_for_dependencies without suspending
AcquiresAndPasses(i) ==
    /\ pc[i] = "Pending"
    /\ launched' = launched + 1 /\ i = launched'
    /\ ~Locked(semaphore)

\* C26: a run starts with every task Pending, and within a run a task only
\* moves Pending -> Waiting -> Running -> Completed or Failed: Running is
\* entered from Waiting only, with every dependency in completed_stages,
\* Completed from Running only, Failed from Waiting or Running only, and a
\* Completed or Failed task stays so.  A task that acquires a free slot and
\* finds its wait decided at once passes through Waiting within one step.
C26_TaskStateMachine ==
    [][ /\ runs' # runs => \A k \in DOMAIN pc' : pc'[k] = "Pending"
        /\ runs' = runs =>
             \A i \in Positions :
                LET from == PhaseOf(pc[i])
                    to == PhaseOf(pc'[i])
                IN  /\ from # to =>
                         \/ from = "Pending" /\ to = "Waiting"
                         \/ from = "Waiting" /\ to \in {"Running", "Failed"}
                         \/ from = "Running" /\ to \in {"Completed", "Failed"}
                         \/ AcquiresAndPasses(i) /\ to \in {"Running", "Failed"}
                    /\ (from # to /\ to = "Running")
                          => DepsOf(i) \subseteq completed_stages ]_vars

\* in one run a task with dependencies has completed, a task has failed
\* inside agent_func and a task has failed in its wait loop
C26_Witness ==
    \E i, j, k \in Positions :
        /\ pc[i] = "Completed" /\ DepsOf(i) # {} /\ calls[i] = 1
        /\ pc[j] = "Failed" /\ outcome[j] = AgentError /\ calls[j] = 1
        /\ pc[k] = "Failed" /\ calls[k] = 0
        /\ outcome[k] = DependenciesFailed(<<StageOf(j)>>)


\* the slots of the semaphore that are taken
SlotsHeld == max_parallel - semaphore.value

\* the positions that have acquired the semaphore and not released it
Holders == {k \in Positions : PhaseOf(pc[k]) \in {"Waiting", "Running"}}

\* C27: the slots taken are as many as the tasks that are waiting for their
\* dependencies or inside agent_func, never more than max_parallel; every
\* way out of execute_task gives the slot back, so when the run has ended all
\* max_parallel slots are free and nobody is queued.
C27_SlotsAccounted ==
    /\ SlotsHeld = Cardinality(Holders)
    /\ SlotsHeld \in 0..max_parallel
    /\ run.status \in {"returned", "raised"}
          => semaphore = [value |-> max_parallel, waiters |-> <<>>]

\* both slots are taken, by a task in its wait loop and a task inside
\* agent_func, after an earlier task has given its slot back
C27_Witness ==
    \E i, j, k \in Positions :
        /\ max_parallel = 2 /\ semaphore.value = 0
        /\ pc[i] = "Waiting"
        /\ pc[j] = "Running"
        /\ pc[k] \in {"Completed", "Failed"}


(***************************************************************************)
(* A run whose coroutines all take their first step before any time        *)
(* passes, as gather starts them when no agent_func blocks the event loop: *)
(* every task of the run is launched at clock value 0.                     *)
(***************************************************************************)
SchedulePrompt == Schedule(TaskLists, 1)

PromptTick ==
    /\ launched = Len(sorted_tasks)
    /\ Tick

PromptNext ==
    \/ SchedulePrompt
    \/ Launch
    \/ \E i \in Positions : Resume(i)
    \/ \E i \in Positions : Poll(i)
    \/ \E i \in Positions : AgentReturns(i)
    \/ \E i \in Positions : AgentRaises(i)
    \/ PromptTick
    \/ GatherDone

PromptSpec == Init /\ [][PromptNext]_vars

\* the clock value at which the tasks of such a run were launched
LaunchTime == 0

\* position i sleeps in its wait loop, which it entered, its dependencies not
\* all completed, when more than the timeout had passed since its launch
WaitsPastDeadline(i) ==
    /\ pc[i] = "Waiting"
    /\ start_time[i] > LaunchTime + Deadline

\* C28: the timeout counts from the launch of the task, the time queued at
\* the semaphore included: a task whose dependencies are not all completed
\* when the timeout has passed since its launch ends with the TimeoutError
\* that names the missing dependencies, so it does not go on waiting and its
\* agent_func is not called.
C28_DeadlineFromLaunch ==
    [][\A i \in Positions :
          (runs' = runs /\ WaitsPastDeadline(i))
              => /\ pc'[i] \in {"Waiting", "Failed"}
                 /\ calls'[i] = calls[i]
                 /\ pc'[i] = "Failed" =>
                       outcome'[i] = TimeoutError(
                           SelectNotIn(sorted_tasks[i].dependencies,
                                       completed_stages))]_vars


\* C29: the context an agent_func is called with holds the result of every
\* dependency of its task, and it is a snapshot of the map at the call: as
\* long as the agent_func runs, what it can read in its context does not
\* change, whatever other tasks store.
C29_ContextIsSnapshot ==
    [][\A i \in Positions :
          runs' = runs =>
            /\ calls'[i] > calls[i] => DepsOf(i) \subseteq DOMAIN ContextOf(i)'
            /\ (pc[i] = "Running" /\ pc'[i] = "Running")
                  => ContextOf(i)' = ContextOf(i)]_vars


\* C30: a chunk is closed only when the next summary does not fit: for every
\* two consecutive chunks returned, the summaries of the earlier one and the
\* first summary of the later one have more than max_tokens tokens together;
\* a summary that fills the open chunk to exactly max_tokens goes into it.
C30_ChunksAreGreedy ==
    Called =>
        \A j \in 1..(Len(chunks) - 1) :
            Cost(chunks[j]) + SummaryTokens(chunks[j + 1][1]) > max_tokens

\* the second summary filled the first chunk to exactly max_tokens and went
\* into it; the third, which fits a chunk of its own, opened the next one
C30_Witness ==
    /\ Called
    /\ Len(chunks) = 2
    /\ Len(chunks[1]) = 2
    /\ Cost(chunks[1]) = max_tokens
    /\ Cost(chunks[2]) < max_tokens


(***************************************************************************)
(* The order of launch.                                                    *)
(***************************************************************************)
\* tasks a and b have the same number of dependencies and the same priority
SameKeys(a, b) ==
    /\ Len(a.dependencies) = Len(b.dependencies)
    /\ a.priority = b.priority

\* s holds every task of ts once, by the number of dependencies, then by
\* priority from high to low, tasks equal on both in their order in ts
StableOrderOf(ts, s) ==
    /\ Len(s) = Len(ts)
    /\ \E p \in [1..Len(ts) -> 1..Len(ts)] :
          /\ \A k, l \in 1..Len(ts) : k # l => p[k] # p[l]
          /\ \A k \in 1..Len(ts) : s[k] = ts[p[k]]
          /\ \A k, l \in 1..Len(ts) :
                k < l => \/ FewerDependenciesThenPriority(s[k], s[l])
                         \/ SameKeys(s[k], s[l]) /\ p[k] < p[l]

\* C31: the tasks of a run are the submitted tasks, each once, in the order
\* of the number of dependencies, then of priority from high to low, tasks
\* equal on both in the order submitted; they are launched in that order,
\* each once, and all are launched when the run ends.
C31_LaunchedInSortedOrderOnce ==
    /\ [][ /\ runs' # runs =>
                \E ts \in TaskLists : StableOrderOf(ts, sorted_tasks')
           /\ runs' = runs =>
                /\ sorted_tasks' = sorted_tasks
                /\ \A i \in Positions :
                      /\ (pc[i] = "Pending" /\ pc'[i] # "Pending")
                            => /\ \A j \in 1..(i - 1) : pc[j] # "Pending"
                               /\ launched' = i /\ launched = i - 1
                      /\ pc[i] # "Pending" => pc'[i] # "Pending" ]_vars
    /\ [](run.status \in {"returned", "raised"}
             => \A i \in Positions : pc[i] # "Pending")

\* the three tasks of the coordinator have been launched, api_documentation
\* and readme_creation, equal on both keys, in the order submitted
C31_Witness ==
    /\ Len(sorted_tasks) = 3
    /\ launched = 3
    /\ StageOf(1) = ANALYSIS
    /\ StageOf(2) = API_DOCS /\ StageOf(3) = README
    /\ SameKeys(sorted_tasks[2], sorted_tasks[3])
    /\ \A i \in Positions : pc[i] # "Pending"


(***************************************************************************)
(* Two calls of create_chunks on one chunker, the second with the files of *)
(* the first except for their 'tokens' values.                             *)
(***************************************************************************)
\* the values tried for file_meta['tokens'] in the second call
RawTokenValues == {1000, 20000}

\* the list files with the 'tokens' of its k-th file replaced by t[k]; the
\* error dictionary has no such key
WithTokens(files, t) ==
    [k \in 1..Len(files) |->
        IF files[k].error THEN files[k]
        ELSE FileMeta(files[k].name, t[k], files[k].summary_tokens)]

TokensInit ==
    /\ SchedulerInit
    /\ max_parallel = 1
    /\ ChunkerInit(Budgets, FilesMetadata(MaxFiles, SummaryCosts))
    /\ ServiceInit

PartitionOtherTokens ==
    /\ first_call.made
    /\ ~first_call.other
    /\ \E t \in [1..Len(first_call.files) -> RawTokenValues] :
          /\ WithTokens(first_call.files, t) # first_call.files
          /\ create_chunks(WithTokens(first_call.files, t))
    /\ first_call' = [first_call EXCEPT !.other = TRUE]
    /\ UNCHANGED << service_vars, task_scheduler_vars >>

TokensNext == Partition \/ PartitionOtherTokens

TokensSpec == TokensInit /\ [][TokensNext]_vars

\* the names of the files of each chunk
Grouping(batches) ==
    [j \in 1..Len(batches) |->
        [k \in 1..Len(batches[j]) |-> batches[j][k].name]]

\* the lists a and b differ at most in the 'tokens' of their files
SameButTokens(a, b) ==
    /\ Len(a) = Len(b)
    /\ \A k \in 1..Len(a) :
          /\ a[k].name = b[k].name
          /\ a[k].error = b[k].error
          /\ a[k].summary_tokens = b[k].summary_tokens

\* C32: two lists of files that differ only in the files' 'tokens' are
\* grouped into chunks in the same way: the chunks depend on the token
\* counts of the summaries and on max_tokens only.
C32_ChunksIgnoreFileTokens ==
    (first_call.made /\ SameButTokens(files_metadata, first_call.files))
        => Grouping(chunks) = Grouping(first_call.chunks)

\* the second call got other 'tokens' for the same files, and both calls
\* grouped several files into two chunks
C32_Witness ==
    /\ first_call.other
    /\ SameButTokens(files_metadata, first_call.files)
    /\ \E k \in 1..Len(files_metadata) :
          files_metadata[k].tokens # first_call.files[k].tokens
    /\ Len(chunks) = 2
    /\ Len(chunks[1]) = 2
    /\ Grouping(chunks) = Grouping(first_call.chunks)


(***************************************************************************)
(* The coordinator's run when the analysis takes long.                     *)
(***************************************************************************)
\* a first run of the coordinator's graph on its scheduler, every agent_func
\* returning
CoordinatorRunAllReturn ==
    /\ runs = 1
    /\ max_parallel = CoordinatorParallel
    /\ CoordinatorGraph
    /\ AllAgentsReturn

\* C33 as stated: the coordinator's run, its three agent_funcs returning,
\* ends by returning with every task completed, however long the analysis
\* takes.
C33_LongAnalysisStillSucceeds ==
    (CoordinatorRunAllReturn /\ run.status \in {"returned", "raised"})
        => /\ run.status = "returned"
           /\ \A k \in Positions : pc[k] = "Completed"

\* C33: in the coordinator's run, its three agent_funcs returning, a task is
\* failed only by the timeout of its wait, when analysis is still not
\* completed more than the timeout after the task began to wait; the run
\* returns with every task completed if no wait timed out, and else raises
\* with the TimeoutError that names analysis.
C33_FailsOnlyByTimeout ==
    /\ [][\A i \in Positions :
            (/\ CoordinatorRunAllReturn /\ runs' = runs
             /\ pc[i] # "Failed" /\ pc'[i] = "Failed")
                => /\ outcome'[i] = TimeoutError(<<ANALYSIS>>)
                   /\ ANALYSIS \in DepsOf(i)
                   /\ ANALYSIS \notin completed_stages
                   /\ pc[i] = "Waiting"
                   /\ now - start_time[i] > Deadline]_vars
    /\ []((CoordinatorRunAllReturn /\ run.status \in {"returned", "raised"})
            => IF \E k \in Positions : pc[k] = "Failed"
               THEN /\ run.status = "raised"
                    /\ run.cause = Str(TimeoutError(<<ANALYSIS>>))
               ELSE /\ run.status = "returned"
                    /\ \A k \in Positions : pc[k] = "Completed")

\* the analysis returned after both dependents had timed out, and the run
\* has raised
C33_Witness ==
    /\ CoordinatorRunAllReturn
    /\ run.status = "raised"
    /\ pc[PosOf(ANALYSIS)] = "Completed"
    /\ \A i \in Positions :
          ANALYSIS \in DepsOf(i)
             => pc[i] = "Failed" /\ outcome[i] = TimeoutError(<<ANALYSIS>>)


(***************************************************************************)
(* Task lists whose dependencies cannot all be completed: a cycle, a task  *)
(* that depends on itself, a dependency that is not submitted.  One run on *)
(* a new scheduler, every coroutine step, every agent_func and the clock   *)
(* fairly scheduled.                                                       *)
(***************************************************************************)
\* analysis and api_documentation depend on each other
CyclicTasks ==
    << AgentTask(ANALYSIS, <<API_DOCS>>, 10),
       AgentTask(API_DOCS, <<ANALYSIS>>, 5),
       AgentTask(README, <<>>, 5) >>

\* analysis lists itself as a dependency
SelfTasks ==
    << AgentTask(ANALYSIS, <<ANALYSIS>>, 10),
       AgentTask(API_DOCS, <<ANALYSIS>>, 5) >>

CycleTaskLists == {CyclicTasks, SelfTasks, UnmetTasks}

MaxCycleTasks ==
    CHOOSE n \in {Len(ts) : ts \in CycleTaskLists} :
        \A ts \in CycleTaskLists : Len(ts) <= n

ScheduleCycle == Schedule(CycleTaskLists, 1)

CycleNext ==
    \/ ScheduleCycle
    \/ Launch
    \/ \E i \in Positions : Resume(i)
    \/ \E i \in Positions : Poll(i)
    \/ \E i \in Positions : AgentReturns(i)
    \/ \E i \in Positions : AgentRaises(i)
    \/ GateTick
    \/ GatherDone

CycleFairness ==
    /\ WF_vars(Launch)
    /\ WF_vars(GatherDone)
    /\ WF_vars(GateTick)
    /\ \A i \in 1..MaxCycleTasks :
         /\ WF_vars(Resume(i))
         /\ WF_vars(Poll(i) /\ pc'[i] # pc[i])
         /\ WF_vars(AgentReturns(i))
         /\ WF_vars(AgentRaises(i))

CycleSpec == Init /\ [][CycleNext]_vars /\ CycleFairness

\* the dependencies of position i can never all be completed: one of them,
\* direct or not, is not submitted or depends on itself
Unsatisfiable(i) ==
    \E s \in AllPrerequisites(StageOf(i)) \cup {StageOf(i)} :
        \/ s \notin Submitted
        \/ s \in AllPrerequisites(s)

\* C34 as stated: when the run has ended, every task whose dependencies can
\* never be completed has ended with the timeout.
C34_UnsatisfiableEndByTimeout ==
    run.status \in {"returned", "raised"} =>
        \A i \in Positions :
            Unsatisfiable(i) => outcome[i].type = "TimeoutError"

\* C34: every run ends, returning or raising, whatever the task list and the
\* capacity; a task whose dependencies can never be completed has then
\* failed without a call of its agent_func, with the timeout or with the
\* "Dependencies failed" exception for a dependency that failed before; at
\* least one of them ended with the timeout, and the run has raised.
C34_RunTerminates ==
    /\ (run.status = "running") ~> (run.status \in {"returned", "raised"})
    /\ [](run.status \in {"returned", "raised"} =>
            /\ \A i \in Positions :
                  Unsatisfiable(i)
                     => /\ pc[i] = "Failed" /\ calls[i] = 0
                        /\ \/ outcome[i] = TimeoutError(
                                  SelectNotIn(sorted_tasks[i].dependencies,
                                              completed_stages))
                           \/ outcome[i].msg = "Dependencies failed"
            /\ (\E i \in Positions : Unsatisfiable(i))
                  => /\ run.status = "raised"
                     /\ \E i \in Positions :
                           /\ Unsatisfiable(i)
                           /\ outcome[i].type = "TimeoutError")

\* the run of the cycle has raised: analysis timed out waiting for
\* api_documentation, which then found analysis failed
C34_Witness ==
    /\ run.status = "raised"
    /\ sorted_tasks = SortedTasks(CyclicTasks)
    /\ outcome[PosOf(ANALYSIS)] = TimeoutError(<<API_DOCS>>)
    /\ outcome[PosOf(API_DOCS)] = DependenciesFailed(<<ANALYSIS>>)
    /\ pc[PosOf(README)] \in {"Completed", "Failed"}


\* C35: no chunk returned is empty, and no chunk at all is returned exactly
\* when no file given is without an error.
C35_NoEmptyChunk ==
    Called =>
        /\ \A j \in 1..Len(chunks) : chunks[j] # <<>>
        /\ chunks = <<>> <=> WithoutErrors(files_metadata) = <<>>

\* files were given, all with an error, and nothing was returned
C35_Witness ==
    /\ Called
    /\ Len(files_metadata) >= 2
    /\ \A k \in 1..Len(files_metadata) : files_metadata[k].error
    /\ chunks = <<>>


(***************************************************************************)
(* generate.py: POST / (generate_documentation) and the background task it *)
(* adds.  Each accepted request makes a new dictionary for the session and *)
(* adds one _generate_docs_background task, so the k-th dictionary and the *)
(* k-th background task belong to the k-th accepted request.  The event    *)
(* loop runs a background task from one await to the next in one step: it  *)
(* suspends only in coordinator.coordinate.                                *)
(***************************************************************************)
\* class TaskStatus(str, Enum)
PENDING == "pending"
PROCESSING == "processing"
ANALYZING == "analyzing"
DOCUMENTING == "documenting"
COMPLETED == "completed"
FAILED == "failed"

TaskStatus ==
    {PENDING, PROCESSING, ANALYZING, DOCUMENTING, COMPLETED, FAILED}

\* task["status"] in [TaskStatus.PROCESSING, TaskStatus.ANALYZING]
AlreadyGenerating(status) == status \in {PROCESSING, ANALYZING}

\* generation_tasks[s]["status"], for a session that is a key
StatusOf(s) == task_dicts[generation_tasks[s]]

\* upload_files: a new session id is stored in active_sessions
Upload ==
    /\ \E s \in Sessions \ active_sessions :
          active_sessions' = active_sessions \cup {s}
    /\ UNCHANGED << generation_tasks, task_dicts, background, response,
                    llm_vars, chunker_vars, task_scheduler_vars >>

\* HTTPException(status_code=code) or, for 200, the GenerationStatus returned
Respond(s, code) == response' = [session |-> s, code |-> code]

\* POST / with request.session_id = s
generate_documentation(s) ==
    /\ IF s \notin active_sessions
       THEN /\ Respond(s, 404)
            /\ UNCHANGED << generation_tasks, task_dicts, background >>
       ELSE IF generation_tasks[s] # 0 /\ AlreadyGenerating(StatusOf(s))
       THEN /\ Respond(s, 409)
            /\ UNCHANGED << generation_tasks, task_dicts, background >>
       ELSE /\ Len(background) < MaxGenerations
            /\ task_dicts' = Append(task_dicts, PENDING)
            /\ generation_tasks' =
                  [generation_tasks EXCEPT ![s] = Len(task_dicts) + 1]
            /\ background' =
                  Append(background, [session |-> s, pc |-> "added", task |-> 0])
            /\ Respond(s, 200)
    /\ UNCHANGED << active_sessions, llm_vars, chunker_vars, task_scheduler_vars >>

\* _generate_docs_background from its first line to the await of
\* coordinator.coordinate: task is the dictionary the session has now; its
\* status goes to PROCESSING and, the chunks made, to ANALYZING
BackgroundStarts(k) ==
    /\ k \in 1..Len(background)
    /\ background[k].pc = "added"
    /\ LET task == generation_tasks[background[k].session]
       IN  /\ task_dicts' = [task_dicts EXCEPT ![task] = ANALYZING]
           /\ background' = [background EXCEPT ![k].pc = "coordinating",
                                               ![k].task = task]
    /\ UNCHANGED << active_sessions, generation_tasks, response, llm_vars,
                    chunker_vars, task_scheduler_vars >>

\* coordinate has returned: status DOCUMENTING, the files are saved, status
\* COMPLETED, all on the dictionary read at the start
BackgroundCompletes(k) ==
    /\ k \in 1..Len(background)
    /\ background[k].pc = "coordinating"
    /\ task_dicts' = [task_dicts EXCEPT ![background[k].task] = COMPLETED]
    /\ background' = [background EXCEPT ![k].pc = "done"]
    /\ UNCHANGED << active_sessions, generation_tasks, response, llm_vars,
                    chunker_vars, task_scheduler_vars >>

\* the except branch: coordinate has raised, or saving a file has raised
\* after the status went to DOCUMENTING; FAILED is written to the dictionary
\* the session has now
BackgroundFails(k) ==
    /\ k \in 1..Len(background)
    /\ background[k].pc = "coordinating"
    /\ \E saving \in BOOLEAN :
          LET written == IF saving
                         THEN [task_dicts EXCEPT ![background[k].task] = DOCUMENTING]
                         ELSE task_dicts
          IN  task_dicts' =
                 [written EXCEPT ![generation_tasks[background[k].session]] = FAILED]
    /\ background' = [background EXCEPT ![k].pc = "done"]
    /\ UNCHANGED << active_sessions, generation_tasks, response, llm_vars,
                    chunker_vars, task_scheduler_vars >>

GenerateNext ==
    \/ Upload
    \/ \E s \in Sessions : generate_documentation(s)
    \/ \E k \in 1..MaxGenerations : BackgroundStarts(k)
    \/ \E k \in 1..MaxGenerations : BackgroundCompletes(k)
    \/ \E k \in 1..MaxGenerations : BackgroundFails(k)

GenerateSpec == InitCapacity1 /\ [][GenerateNext]_vars

\* the background tasks of session s that have been added and not ended
InProgress(s) ==
    {k \in 1..Len(background) :
        background[k].session = s /\ background[k].pc # "done"}

\* C36: a session has at most one background generation in progress at a
\* time: a request for a session whose generation was started and has not
\* ended is answered 409 and adds no background task.
C36_OneGenerationPerSession ==
    \A s \in Sessions : Cardinality(InProgress(s)) <= 1


(***************************************************************************)
(* GroqClient.generate: up to MaxRequests calls running at once, as in     *)
(* generate_batch.  Whether self.llm.invoke returns or raises is not the   *)
(* client's choice.  _rate_limit only delays a call and stamps             *)
(* last_request_time, which is counted here in calls instead of seconds.   *)
(***************************************************************************)
\* max_retries: int = 3
DefaultMaxRetries == 3

\* the values of max_retries tried
RetriesTried == 0..DefaultMaxRetries

GivesUpEarly(attempt, max_retries) == attempt >= max_retries - 2

\* if attempt == max_retries - 1
LastAttempt(attempt, max_retries) == attempt = max_retries - 1

\* range(max_retries)
Attempts(max_retries) == 0..(max_retries - 1)

\* generate(prompt, system_message, n) up to its first await of
\* self.llm.invoke; with an empty range it raises "LLM generation failed"
Generate(r, n) ==
    /\ llm_requests[r].status = "idle"
    /\ last_request_time' = last_request_time + 1
    /\ llm_requests' =
          [llm_requests EXCEPT ![r] =
              IF 0 \in Attempts(n)
              THEN [status |-> "invoking", max_retries |-> n, attempt |-> 0,
                    calls |-> 1, failed |-> 0]
              ELSE [status |-> "raised", max_retries |-> n, attempt |-> 0,
                    calls |-> 0, failed |-> 0]]
    /\ UNCHANGED << generate_vars, chunker_vars, task_scheduler_vars >>

\* self.llm.invoke has returned: return response.content
InvokeReturns(r) ==
    /\ llm_requests[r].status = "invoking"
    /\ llm_requests' = [llm_requests EXCEPT ![r].status = "returned"]
    /\ UNCHANGED << last_request_time, generate_vars, chunker_vars,
                    task_scheduler_vars >>

\* self.llm.invoke has raised: the except branch raises on the last attempt
\* and else sleeps 2 ** attempt seconds
InvokeRaises(r) ==
    /\ llm_requests[r].status = "invoking"
    /\ llm_requests' =
          [llm_requests EXCEPT
              ![r].failed = @ + 1,
              ![r].status = IF LastAttempt(llm_requests[r].attempt,
                                           llm_requests[r].max_retries)
                            THEN "raised" ELSE "sleeping"]
    /\ UNCHANGED << last_request_time, generate_vars, chunker_vars,
                    task_scheduler_vars >>

\* the sleep is over: the next attempt of the loop, or its end and the raise
\* of the last line
Retry(r) ==
    /\ llm_requests[r].status = "sleeping"
    /\ llm_requests' =
          [llm_requests EXCEPT ![r] =
              IF @.attempt + 1 \in Attempts(@.max_retries)
              THEN [@ EXCEPT !.attempt = @ + 1, !.calls = @ + 1,
                             !.status = "invoking"]
              ELSE [@ EXCEPT !.status = "raised"]]
    /\ UNCHANGED << last_request_time, generate_vars, chunker_vars,
                    task_scheduler_vars >>

GroqNext ==
    \/ \E r \in 1..MaxRequests : \E n \in RetriesTried : Generate(r, n)
    \/ \E r \in 1..MaxRequests : InvokeReturns(r)
    \/ \E r \in 1..MaxRequests : InvokeRaises(r)
    \/ \E r \in 1..MaxRequests : Retry(r)

GroqSpec == InitCapacity1 /\ [][GroqNext]_vars

\* C37: a generate call invokes the model at most max_retries times; when it
\* has returned, its last invocation was the first that returned, and when
\* it has raised, max_retries invocations in a row have raised.
C37_RetriesBounded ==
    \A r \in 1..MaxRequests :
        LET q == llm_requests[r]
        IN  /\ q.calls <= q.max_retries
            /\ q.failed <= q.calls
            /\ q.status = "returned" => q.calls = q.failed + 1
            /\ q.status = "raised" =>
                  q.failed = q.max_retries /\ q.calls = q.max_retries

\* a call with max_retries = 3 has raised after three failed invocations,
\* and another has returned from its second invocation
C37_Witness ==
    \E r, q \in 1..MaxRequests :
        /\ llm_requests[r] =
              [status |-> "raised", max_retries |-> DefaultMaxRetries,
               attempt |-> 2, calls |-> 3, failed |-> 3]
        /\ llm_requests[q].status = "returned"
        /\ llm_requests[q].calls = 2 /\ llm_requests[q].failed = 1


====
